---- MODULE Spec2Model ----
(***************************************************************************)
(* Order-lifecycle controller of the KAS trading bot (src/KASBOT.py).      *)
(*                                                                         *)
(* Prices are fixed-point integers (UnitsPerUSDT units per USDT), amounts  *)
(* are whole KAS.  The exchange and the state file are environment state.  *)
(***************************************************************************)
EXTENDS Integers, Sequences, FiniteSets, TLC

VARIABLES
    pc,                          \* position of the run_bot thread
    active_orders,               \* run_bot local: sequence of order records
    executed_orders_count,       \* run_bot local
    total_profit,                \* run_bot local (price units * KAS)
    trading_stopped,             \* module global
    insufficient_funds_notified, \* module global
    command_queue,               \* queue.Queue of "stop" / "start" / "buy"
    file,                        \* content of bot_state.json
    exch,                        \* exchange: status of every sell order id
    lookup,                      \* status lookups of the last reconciliation pass
    counted,                     \* per order id: times it was added to the counters
    creator_role,                \* role the last controller step called create_new_order with
    halted,                      \* a stop command was processed, no start command since
    notification_queue,          \* queue.Queue of outbound messages (message ids)
    sender,                      \* send_notifications: position and the local `message`
    delivered,                   \* messages the channel accepted, in order
    produced,                    \* number of messages ever enqueued
    mem,                         \* persistence round trip: the OrderBook handed to save_state
    loaded,                      \* persistence round trip: what load_state returned
    step,                        \* persistence round trip: position
    writes,                      \* times save_state opened the state file for writing
    alerts,                      \* insufficient-funds messages enqueued since funds last sufficed
    short,                       \* the last order creation met insufficient funds
    last                         \* what the last check_orders / create_new_order call did

vars == <<pc, active_orders, executed_orders_count, total_profit, trading_stopped,
          insufficient_funds_notified, command_queue, file, exch, lookup,
          counted, creator_role, halted, notification_queue, sender, delivered, produced,
          mem, loaded, step, writes, alerts, short, last>>

----------------------------------------------------------------------------
(* Bounds of the model *)

MaxOrders == 2      \* sell orders the account can fund in one run
MaxCmds == 1        \* operator commands waiting in command_queue
MaxCount == 3       \* cap on executed_orders_count
MaxMsgs == 5        \* messages produced in the notification specification

(* Program constants *)

order_size == 15            \* USDT
profit_permille == 5        \* profit_percent = 0.5 / 100
drop_percent == 1           \* drop_percent = 1 / 100
UnitsPerUSDT == 10000       \* fixed-point price unit: 0.0001 USDT

Prices == {200, 400}        \* ticker / fill prices the exchange may report
Balances == {0, order_size} \* free USDT the exchange may report

OrderIds == 1..MaxOrders

----------------------------------------------------------------------------
(* Orders and sequences *)

Order(id, amount, price, buy_price, order_type) ==
    [id |-> id, amount |-> amount, price |-> price,
     buy_price |-> buy_price, order_type |-> order_type]

Range(s) == {s[i] : i \in 1..Len(s)}

Ids(s) == {s[i].id : i \in 1..Len(s)}

IsAutobay(o) == o.order_type = "autobay"

Autobays(s) == {i \in 1..Len(s) : IsAutobay(s[i])}

SetType(s, i, t) == [s EXCEPT ![i].order_type = t]

\* list.sort(key=price): stable, ascending
RECURSIVE InsertByPrice(_, _)
InsertByPrice(s, o) ==
    IF s = <<>> THEN <<o>>
    ELSE IF s[Len(s)].price <= o.price THEN Append(s, o)
    ELSE Append(InsertByPrice(SubSeq(s, 1, Len(s) - 1), o), s[Len(s)])

RECURSIVE SortByPrice(_)
SortByPrice(s) ==
    IF s = <<>> THEN <<>>
    ELSE InsertByPrice(SortByPrice(SubSeq(s, 1, Len(s) - 1)), s[Len(s)])

\* sell_price = actual_buy_price * (1 + profit_percent)
SellPrice(buy_price) == (buy_price * (1000 + profit_permille)) \div 1000

\* amount = order_size / current_price
BuyAmount(current_price) == (order_size * UnitsPerUSDT) \div current_price

\* profit = sell_revenue - buy_cost
Profit(o) == o.price * o.amount - o.buy_price * o.amount

\* current_price <= autobay_order['buy_price'] * (1 - drop_percent)
DropFires(current_price, buy_price) == current_price * 100 <= buy_price * (100 - drop_percent)

----------------------------------------------------------------------------
(* State persistence: save_state / load_state *)

NoFile == [kind |-> "absent", active_orders |-> <<>>, executed_orders_count |-> 0,
           total_profit |-> 0, trading_stopped |-> FALSE]

BadFile == [NoFile EXCEPT !.kind = "malformed"]

\* new_state, as json.dump writes it
JsonState(ao, cnt, tp, ts) ==
    [kind |-> "json", active_orders |-> ao, executed_orders_count |-> cnt,
     total_profit |-> tp, trading_stopped |-> ts]

\* faulty variant of SaveSkipsEmpty: the early return taken for a stopped bot too
SaveSkipsEmptyAnyFlag(ao, cnt, tp, ts) == ao = <<>> /\ cnt = 0 /\ tp = 0

\* the early return of save_state: nothing is written for the empty state
SaveSkipsEmpty(ao, cnt, tp, ts) == ao = <<>> /\ cnt = 0 /\ tp = 0 /\ ~ts

\* faulty variant of SaveWrites: the file is written without comparing it
\* with the new state first
SaveWritesAlways(f, ao, cnt, tp, ts) == ~SaveSkipsEmpty(ao, cnt, tp, ts)

\* TRUE when save_state opens the file for writing
SaveWrites(f, ao, cnt, tp, ts) ==
    /\ ~SaveSkipsEmpty(ao, cnt, tp, ts)
    /\ ~(f.kind = "json" /\ f = JsonState(ao, cnt, tp, ts))

\* content of the file after save_state(active_orders, executed_orders_count, total_profit)
SaveState(f, ao, cnt, tp, ts) ==
    IF SaveWrites(f, ao, cnt, tp, ts) THEN JsonState(ao, cnt, tp, ts) ELSE f

\* load_state: the returned triple and the value it leaves in trading_stopped
LoadState(f, ts) ==
    IF f.kind = "json"
    THEN [active_orders |-> f.active_orders,
          executed_orders_count |-> f.executed_orders_count,
          total_profit |-> f.total_profit,
          trading_stopped |-> f.trading_stopped]
    ELSE [active_orders |-> <<>>, executed_orders_count |-> 0, total_profit |-> 0,
          trading_stopped |-> IF f.kind = "absent" THEN FALSE ELSE ts]

----------------------------------------------------------------------------
(* Order Creator: create_buy_order / create_sell_order / create_new_order *)

attempts == 3       \* for attempt in range(3)

\* Outcome of one attempt of the buy loop:
\*   ok           market buy accepted, fill price read
\*   rate         create_market_buy_order raises RateLimitExceeded
\*   fetch_rate   market buy accepted, fetch_order raises RateLimitExceeded
\*   insufficient create_market_buy_order raises InsufficientFunds
\*   notfound     create_market_buy_order raises OrderNotFound
\*   network      create_market_buy_order raises NetworkError (not a rate limit)
\*   error        create_market_buy_order raises any other exception
\*   fetch_error  market buy accepted, fetch_order raises any other exception
BuyRetry == {"rate", "fetch_rate"}
BuyFinal == {"ok", "insufficient", "notfound", "network", "error", "fetch_error"}

\* Outcome of one attempt of the sell loop (create_limit_sell_order)
SellRetry == {"rate"}
SellFinal == {"ok", "insufficient", "notfound", "network", "error"}

\* Outcome sequences of a loop that tries at most `attempts` times, looked at
\* up to depth d: every outcome but the last makes the loop try again.
ScriptsOfLen(n, R, F) ==
    {s \in [1..n -> R \cup F] :
        /\ \A i \in 1..(n - 1) : s[i] \in R
        /\ n < attempts => s[n] \in F}

Scripts(d, R, F) ==
    UNION {ScriptsOfLen(n, R, F) : n \in 1..(IF d < attempts THEN d ELSE attempts)}

\* create_buy_order from attempt k on: result, flag, notifications, market buys executed
RECURSIVE BuyFrom(_, _, _, _, _)
BuyFrom(script, k, ifn, ns, buys) ==
    IF k > attempts \/ k > Len(script)
    THEN [ok |-> FALSE, ifn |-> ifn, notes |-> ns, buys |-> buys]
    ELSE LET o == script[k] IN
         CASE o = "ok" ->
                [ok |-> TRUE, ifn |-> FALSE, notes |-> ns, buys |-> buys + 1]
           [] o = "insufficient" ->
                [ok |-> FALSE, ifn |-> TRUE,
                 notes |-> IF ifn THEN ns ELSE Append(ns, "insufficient_buy"),
                 buys |-> buys]
           [] o = "rate" -> BuyFrom(script, k + 1, ifn, ns, buys)
           [] o = "fetch_rate" -> BuyFrom(script, k + 1, ifn, ns, buys + 1)
           [] o = "notfound" ->
                [ok |-> FALSE, ifn |-> ifn, notes |-> Append(ns, "order_not_found"),
                 buys |-> buys]
           [] o = "fetch_error" ->
                [ok |-> FALSE, ifn |-> ifn, notes |-> Append(ns, "buy_error"),
                 buys |-> buys + 1]
           [] OTHER ->
                [ok |-> FALSE, ifn |-> ifn, notes |-> Append(ns, "buy_error"),
                 buys |-> buys]

create_buy_order(script, ifn) == BuyFrom(script, 1, ifn, <<>>, 0)

\* create_sell_order from attempt k on: result, flag, notifications, sells submitted
RECURSIVE SellFrom(_, _, _, _, _)
SellFrom(script, k, ifn, ns, sells) ==
    IF k > attempts \/ k > Len(script)
    THEN [ok |-> FALSE, ifn |-> ifn, notes |-> ns, sells |-> sells]
    ELSE LET o == script[k] IN
         CASE o = "ok" ->
                [ok |-> TRUE, ifn |-> FALSE, notes |-> ns, sells |-> sells + 1]
           [] o = "insufficient" ->
                [ok |-> FALSE, ifn |-> TRUE,
                 notes |-> IF ifn THEN ns ELSE Append(ns, "insufficient_sell"),
                 sells |-> sells + 1]
           [] o = "rate" -> SellFrom(script, k + 1, ifn, ns, sells + 1)
           [] o = "notfound" ->
                [ok |-> FALSE, ifn |-> ifn, notes |-> Append(ns, "order_not_found"),
                 sells |-> sells + 1]
           [] OTHER ->
                [ok |-> FALSE, ifn |-> ifn, notes |-> Append(ns, "sell_error"),
                 sells |-> sells + 1]

\* faulty variant of create_sell_order: an order is returned whatever the exchange did
create_sell_order_unchecked(script, ifn) ==
    [SellFrom(script, 1, ifn, <<>>, 0) EXCEPT !.ok = TRUE]

create_sell_order(script, ifn) == SellFrom(script, 1, ifn, <<>>, 0)

\* What the exchange does during one create_new_order call
Scenario(load, ticker, balance, bal, px, buy, sell) ==
    [load |-> load, ticker |-> ticker, balance |-> balance, bal |-> bal, px |-> px,
     buy |-> buy, sell |-> sell]

MinPrice == CHOOSE p \in Prices : \A q \in Prices : p <= q

\* the id the exchange gives the next limit sell order; 0 when the account is spent
FreeId(ex) ==
    IF \E i \in DOMAIN ex : ex[i] = "none"
    THEN CHOOSE i \in DOMAIN ex : ex[i] = "none" /\ \A j \in DOMAIN ex : ex[j] = "none" => i <= j
    ELSE 0

\* Scenarios with buy and sell looked at up to depth d; a spent account
\* (no free id) reports a balance below order_size.
Scenarios(ex, d) ==
    LET ok1 == <<"ok">>
        funded == FreeId(ex) # 0
        buys == Scripts(d, BuyRetry, BuyFinal)
        sells == Scripts(d, SellRetry, SellFinal)
        okbuys == {b \in buys : create_buy_order(b, FALSE).ok}
    IN  {Scenario("raise", "ok", "ok", 0, MinPrice, ok1, ok1),
         Scenario("ok", "raise", "ok", 0, MinPrice, ok1, ok1),
         Scenario("ok", "ok", "raise", 0, MinPrice, ok1, ok1)}
        \cup {Scenario("ok", "ok", "ok", bal, MinPrice, ok1, ok1) :
                 bal \in {x \in Balances : x < order_size}}
        \cup (IF funded
              THEN {Scenario("ok", "ok", "ok", bal, p, b, ok1) :
                        bal \in {x \in Balances : x >= order_size},
                        p \in Prices, b \in buys \ okbuys}
                   \cup {Scenario("ok", "ok", "ok", bal, p, b, s) :
                        bal \in {x \in Balances : x >= order_size},
                        p \in Prices, b \in okbuys, s \in sells}
              ELSE {})

\* create_new_order(symbol, active_orders, ..., order_type): the list it returns
\* (or raised = TRUE), the flag, the exchange and the notifications it enqueued.
create_new_order(ao, ifn, ex, role, sc) ==
    LET unchanged == [raised |-> FALSE, active_orders |-> ao, ifn |-> ifn, exch |-> ex,
                      notes |-> <<>>, buys |-> 0, sells |-> 0]
    IN
    IF sc.load = "raise" \/ sc.ticker = "raise" \/ sc.balance = "raise"
    THEN [unchanged EXCEPT !.raised = TRUE]
    ELSE IF sc.bal < order_size
    THEN [unchanged EXCEPT !.ifn = TRUE,
                           !.notes = IF ifn THEN <<>> ELSE <<"insufficient_funds">>]
    ELSE LET b == create_buy_order(sc.buy, FALSE) IN
         IF ~b.ok
         THEN [unchanged EXCEPT !.ifn = b.ifn, !.notes = b.notes, !.buys = b.buys]
         ELSE LET actual_buy_price == sc.px
                  bought_amount == BuyAmount(sc.px)
                  sell_price == SellPrice(actual_buy_price)
                  s == create_sell_order(sc.sell, b.ifn)
                  id == FreeId(ex)
              IN  IF s.ok
                  THEN [raised |-> FALSE,
                        active_orders |-> Append(ao, Order(id, bought_amount, sell_price,
                                                           actual_buy_price, role)),
                        ifn |-> s.ifn,
                        exch |-> [ex EXCEPT ![id] = "open"],
                        notes |-> b.notes \o <<"bought">> \o s.notes,
                        buys |-> b.buys, sells |-> s.sells]
                  ELSE [raised |-> FALSE, active_orders |-> ao, ifn |-> s.ifn, exch |-> ex,
                        notes |-> b.notes \o <<"bought">> \o s.notes \o <<"sell_failed">>,
                        buys |-> b.buys, sells |-> s.sells]

----------------------------------------------------------------------------
(* Status Reconciler and rotation policy: check_orders *)

\* faulty variant of Keep: an order whose lookup failed is not kept
KeepWithoutFailed(ao, res, kinds) == SelectSeq(ao, LAMBDA o : res[o.id] \in kinds \ {"fail"})

\* the orders of the list whose lookup result is one of `kinds` (lines 319-334)
Keep(ao, res, kinds) == SelectSeq(ao, LAMBDA o : res[o.id] \in kinds)

RECURSIVE SumProfit(_)
SumProfit(s) == IF s = <<>> THEN 0 ELSE Profit(Head(s)) + SumProfit(Tail(s))

\* the first 'autobay' of a sorted list keeps the role, later ones become 'bay'
RECURSIVE KeepFirstAutobay(_, _)
KeepFirstAutobay(s, first_autobay) ==
    IF s = <<>> THEN <<>>
    ELSE IF IsAutobay(Head(s))
         THEN IF first_autobay
              THEN <<Head(s)>> \o KeepFirstAutobay(Tail(s), FALSE)
              ELSE <<[Head(s) EXCEPT !.order_type = "bay"]>> \o KeepFirstAutobay(Tail(s), FALSE)
         ELSE <<Head(s)>> \o KeepFirstAutobay(Tail(s), first_autobay)

\* lines 368-382: rotation over updated_orders
Rotate(updated_orders, flagautobay, ts) ==
    IF ts THEN updated_orders
    ELSE IF flagautobay = 0 /\ updated_orders # <<>>
         THEN SetType(SortByPrice(updated_orders), 1, "autobay")
    ELSE IF flagautobay > 1
         THEN KeepFirstAutobay(SortByPrice(updated_orders), TRUE)
    ELSE updated_orders

\* The order dicts are shared between active_orders and updated_orders: the
\* list the error fallback returns shows the roles the rotation has set.
Retyped(ao, rotated) ==
    [i \in 1..Len(ao) |->
        IF \E j \in 1..Len(rotated) : rotated[j].id = ao[i].id
        THEN LET j == CHOOSE j \in 1..Len(rotated) : rotated[j].id = ao[i].id
             IN  rotated[j]
        ELSE ao[i]]

\* TRUE when the pass reaches a create_new_order call (line 363 or line 388)
ChecksCreate(ao, ts, initial_check, res) ==
    LET updated_orders == Keep(ao, res, {"fail", "open"})
        gone == Keep(ao, res, {"closed", "canceled"})
        autobay_needed == \E i \in 1..Len(gone) : IsAutobay(gone[i])
    IN  /\ ~ts
        /\ \/ initial_check /\ updated_orders = <<>>
           \/ ~initial_check /\ autobay_needed

\* faulty variant of Replenishes: the initial check replenishes too
ReplenishesOnInitial(autobay_needed, initial_check, ts) == autobay_needed /\ ~ts

\* line 386: autobay_needed and not initial_check and not trading_stopped
Replenishes(autobay_needed, initial_check, ts) == autobay_needed /\ ~initial_check /\ ~ts

\* check_orders(symbol, active_orders, executed_orders_count, total_profit, initial_check)
\* The result also lists the calls made from line 360 on (events) and the
\* still-open orders as the rotation of lines 368-382 leaves them (rotated).
\* res: per order id "open" / "closed" / "canceled", or "fail" when fetch_order raised
check_orders(ao, cnt, tp, ifn, f, ex, ts, initial_check, res, sc) ==
    LET updated_orders == Keep(ao, res, {"fail", "open"})
        closed_orders == Keep(ao, res, {"closed"})
        canceled_orders == Keep(ao, res, {"canceled"})
        autobay_needed ==
            \/ \E i \in 1..Len(closed_orders) : IsAutobay(closed_orders[i])
            \/ \E i \in 1..Len(canceled_orders) : IsAutobay(canceled_orders[i])
        flagautobay == Cardinality({i \in 1..Len(ao) : res[ao[i].id] = "open" /\ IsAutobay(ao[i])})
        cnt1 == cnt + Len(closed_orders)
        tp1 == tp + SumProfit(closed_orders)
        notes1 == (IF initial_check THEN <<"check_start">> ELSE <<>>)
                  \o [i \in 1..Len(closed_orders) |-> "filled"]
                  \o [i \in 1..Len(canceled_orders) |-> "canceled"]
        base == [active_orders |-> updated_orders, executed_orders_count |-> cnt1,
                 total_profit |-> tp1, ifn |-> ifn, file |-> f, exch |-> ex,
                 notes |-> notes1, fallback |-> FALSE, created |-> FALSE,
                 events |-> <<>>, rotated |-> <<>>]
    IN
    IF initial_check /\ updated_orders = <<>>
    THEN IF ~ts
         THEN LET r == create_new_order(updated_orders, ifn, ex, "autobay", sc) IN
              IF r.raised
              THEN [base EXCEPT !.active_orders = ao, !.fallback = TRUE, !.created = TRUE,
                                !.events = <<"create_autobay">>]
              ELSE [base EXCEPT !.active_orders = r.active_orders, !.ifn = r.ifn,
                                !.exch = r.exch, !.notes = notes1 \o r.notes,
                                !.created = TRUE, !.events = <<"create_autobay">>]
         ELSE base
    ELSE LET rotated == Rotate(updated_orders, flagautobay, ts)
             f1 == SaveState(f, rotated, cnt1, tp1, ts)
             done == IF initial_check THEN <<"check_done">> ELSE <<>>
         IN  IF Replenishes(autobay_needed, initial_check, ts)
             THEN LET r == create_new_order(rotated, ifn, ex, "autobay", sc) IN
                  IF r.raised
                  THEN [base EXCEPT !.active_orders = Retyped(ao, rotated), !.file = f1,
                                    !.fallback = TRUE, !.created = TRUE,
                                    !.events = <<"save_state", "sleep", "create_autobay">>,
                                    !.rotated = rotated]
                  ELSE [base EXCEPT !.active_orders = r.active_orders, !.ifn = r.ifn,
                                    !.exch = r.exch, !.notes = notes1 \o r.notes \o done,
                                    !.file = SaveState(f1, r.active_orders, cnt1, tp1, ts),
                                    !.created = TRUE,
                                    !.events = <<"save_state", "sleep", "create_autobay",
                                                 "save_state">>,
                                    !.rotated = rotated]
             ELSE [base EXCEPT !.active_orders = rotated, !.file = f1,
                               !.notes = notes1 \o done,
                               !.events = <<"save_state">>, !.rotated = rotated]

\* what fetch_order returns for every order of the list; `failed` are the lookups that raise
Lookups(ao, ex, failed) ==
    [id \in Ids(ao) |-> IF id \in failed THEN "fail" ELSE ex[id]]

----------------------------------------------------------------------------
(* The controller thread: run_bot *)

BuyDepth == 1       \* attempts of the buy / sell loops looked at in the controller specification

NoLookup == [id \in {} |-> "open"]

\* no check_orders / create_new_order call observed
NoCall == [op |-> "none"]

NoScenario == Scenario("ok", "ok", "ok", 0, MinPrice, <<"ok">>, <<"ok">>)

\* the scenarios a pass draws from: one when it reaches no create_new_order call
PassScenarios(ao, ts, initial_check, res) ==
    IF ChecksCreate(ao, ts, initial_check, res) THEN Scenarios(exch, BuyDepth) ELSE {NoScenario}

Counted(ao, res) ==
    [id \in OrderIds |-> IF id \in Ids(ao) /\ res[id] = "closed"
                         THEN counted[id] + 1 ELSE counted[id]]

UnchangedSide == UNCHANGED <<notification_queue, sender, delivered, produced, mem, loaded, step,
                             writes, alerts, short, last>>

\* One check_orders call of run_bot followed by the save_state after it
\* (lines 406-409, 430-433 and 443-447; the tick also sorts before it saves).
Pass(ao, cnt, tp, ts, initial_check, next_pc) ==
    \E failed \in SUBSET Ids(ao) :
        LET res == Lookups(ao, exch, failed) IN
        \E sc \in PassScenarios(ao, ts, initial_check, res) :
            LET r == check_orders(ao, cnt, tp, insufficient_funds_notified, file, exch,
                                  ts, initial_check, res, sc)
                final == IF initial_check THEN r.active_orders
                         ELSE SortByPrice(r.active_orders)
            IN  /\ r.executed_orders_count <= MaxCount
                /\ active_orders' = final
                /\ executed_orders_count' = r.executed_orders_count
                /\ total_profit' = r.total_profit
                /\ insufficient_funds_notified' = r.ifn
                /\ exch' = r.exch
                /\ file' = SaveState(r.file, final, r.executed_orders_count,
                                     r.total_profit, ts)
                /\ lookup' = res
                /\ counted' = Counted(ao, res)
                /\ creator_role' = IF r.created THEN "autobay" ELSE "none"
                /\ trading_stopped' = ts
                /\ pc' = next_pc

\* lines 405-409: load_state, the initial check, save_state
Startup ==
    /\ pc = "startup"
    /\ LET l == LoadState(file, trading_stopped) IN
       Pass(l.active_orders, l.executed_orders_count, l.total_profit,
            l.trading_stopped, TRUE, "cmd")
    /\ UNCHANGED <<command_queue, halted>>
    /\ UnchangedSide

\* line 413 on an empty queue: queue.Empty, pass
CmdNone ==
    /\ pc = "cmd"
    /\ command_queue = <<>>
    /\ pc' = "check"
    /\ lookup' = NoLookup
    /\ creator_role' = "none"
    /\ UNCHANGED <<active_orders, executed_orders_count, total_profit, trading_stopped,
                   insufficient_funds_notified, command_queue, file, exch, counted, halted>>
    /\ UnchangedSide

\* lines 414-416: "stop" taken from the queue, the flag set
CmdStopFlag ==
    /\ pc = "cmd"
    /\ command_queue # <<>> /\ Head(command_queue) = "stop"
    /\ command_queue' = Tail(command_queue)
    /\ trading_stopped' = TRUE
    /\ pc' = "stopping"
    /\ lookup' = NoLookup
    /\ creator_role' = "none"
    /\ UNCHANGED <<active_orders, executed_orders_count, total_profit,
                   insufficient_funds_notified, file, exch, counted, halted>>
    /\ UnchangedSide

\* the for loop of lines 417-422: the first 'autobay' of the list becomes 'bay'
DemoteFirstAutobay(ao) ==
    IF Autobays(ao) = {} THEN ao
    ELSE SetType(ao, CHOOSE i \in Autobays(ao) : \A j \in Autobays(ao) : i <= j, "bay")

\* lines 417-425: demote, notify, save_state
CmdStopDemote ==
    /\ pc = "stopping"
    /\ active_orders' = DemoteFirstAutobay(active_orders)
    /\ file' = SaveState(file, active_orders', executed_orders_count, total_profit,
                         trading_stopped)
    /\ pc' = "check"
    /\ lookup' = NoLookup
    /\ creator_role' = "none"
    /\ halted' = TRUE
    /\ UNCHANGED <<executed_orders_count, total_profit, trading_stopped,
                   insufficient_funds_notified, command_queue, exch, counted>>
    /\ UnchangedSide

\* lines 426-429: "start" taken from the queue, both flags cleared
CmdStartFlag ==
    /\ pc = "cmd"
    /\ command_queue # <<>> /\ Head(command_queue) = "start"
    /\ command_queue' = Tail(command_queue)
    /\ trading_stopped' = FALSE
    /\ insufficient_funds_notified' = FALSE
    /\ pc' = "starting"
    /\ lookup' = NoLookup
    /\ creator_role' = "none"
    /\ halted' = FALSE
    /\ UNCHANGED <<active_orders, executed_orders_count, total_profit, file, exch, counted>>
    /\ UnchangedSide

\* lines 430-433: the initial check of "start", save_state
CmdStartCheck ==
    /\ pc = "starting"
    /\ Pass(active_orders, executed_orders_count, total_profit, trading_stopped, TRUE, "check")
    /\ UNCHANGED <<command_queue, halted>>
    /\ UnchangedSide

\* lines 434-439: "buy"; an exception of create_new_order leaves run_bot
CmdBuy ==
    /\ pc = "cmd"
    /\ command_queue # <<>> /\ Head(command_queue) = "buy"
    /\ command_queue' = Tail(command_queue)
    /\ \E sc \in Scenarios(exch, BuyDepth) :
        LET r == create_new_order(active_orders, insufficient_funds_notified, exch, "bay", sc)
        IN  IF r.raised
            THEN /\ pc' = "crashed"
                 /\ UNCHANGED <<active_orders, insufficient_funds_notified, exch, file>>
            ELSE /\ pc' = "check"
                 /\ active_orders' = r.active_orders
                 /\ insufficient_funds_notified' = r.ifn
                 /\ exch' = r.exch
                 /\ file' = SaveState(file, r.active_orders, executed_orders_count,
                                      total_profit, trading_stopped)
    /\ lookup' = NoLookup
    /\ creator_role' = "bay"
    /\ UNCHANGED <<executed_orders_count, total_profit, trading_stopped, counted, halted>>
    /\ UnchangedSide

\* lines 443-447: the tick's reconciliation pass, sort, save_state
TickCheck ==
    /\ pc = "check"
    /\ Pass(active_orders, executed_orders_count, total_profit, trading_stopped, FALSE, "drop")
    /\ UNCHANGED <<command_queue, halted>>
    /\ UnchangedSide

\* index of the order `next(o for o in active_orders if autobay)` finds, 0 for None
FirstAutobay(ao) ==
    IF Autobays(ao) = {} THEN 0
    ELSE CHOOSE i \in Autobays(ao) : \A j \in Autobays(ao) : i <= j

Crash == pc' = "crashed"

\* lines 449-466: the price-drop trigger; an exception of get_current_price,
\* get_available_balance or create_new_order leaves run_bot
TickDrop ==
    /\ pc = "drop"
    /\ lookup' = NoLookup
    /\ UNCHANGED <<executed_orders_count, total_profit, trading_stopped, command_queue,
                   counted, halted>>
    /\ UnchangedSide
    /\ LET a == FirstAutobay(active_orders) IN
       \/ /\ Crash      \* fetch_ticker raises an error that is no NetworkError
          /\ creator_role' = "none"
          /\ UNCHANGED <<active_orders, insufficient_funds_notified, exch, file>>
       \/ \E current_price \in Prices :
            IF a # 0 /\ DropFires(current_price, active_orders[a].buy_price)
                     /\ ~trading_stopped
            THEN \/ /\ Crash      \* fetch_balance raises an error that is no NetworkError
                    /\ creator_role' = "none"
                    /\ UNCHANGED <<active_orders, insufficient_funds_notified, exch, file>>
                 \/ \E available_balance \in Balances :
                      IF available_balance >= order_size
                      THEN /\ FreeId(exch) # 0
                           /\ creator_role' = "autobay"
                           /\ \E sc \in Scenarios(exch, BuyDepth) :
                                LET demoted == SetType(active_orders, a, "bay")
                                    r == create_new_order(demoted, insufficient_funds_notified,
                                                          exch, "autobay", sc)
                                IN  IF r.raised
                                    THEN /\ Crash
                                         /\ active_orders' = demoted
                                         /\ UNCHANGED <<insufficient_funds_notified, exch, file>>
                                    ELSE /\ pc' = "cmd"
                                         /\ active_orders' = r.active_orders
                                         /\ insufficient_funds_notified' = r.ifn
                                         /\ exch' = r.exch
                                         /\ file' = SaveState(file, r.active_orders,
                                                              executed_orders_count,
                                                              total_profit, trading_stopped)
                      ELSE /\ pc' = "cmd"
                           /\ creator_role' = "none"
                           /\ insufficient_funds_notified' = TRUE
                           /\ UNCHANGED <<active_orders, exch, file>>
            ELSE /\ pc' = "cmd"
                 /\ creator_role' = "none"
                 /\ UNCHANGED <<active_orders, insufficient_funds_notified, exch, file>>

----------------------------------------------------------------------------
(* The exchange and the operator *)

UnchangedCtl == UNCHANGED <<pc, active_orders, executed_orders_count, total_profit,
                            insufficient_funds_notified, lookup, counted,
                            creator_role, halted>>

\* The status of an order is read by the reconciliation passes only: a change
\* on the exchange is taken at the moment a pass is about to see it.
BeforePass == pc \in {"startup", "starting", "check"}

\* an open limit sell is filled
ExchangeFill ==
    /\ BeforePass
    /\ \E id \in OrderIds : exch[id] = "open" /\ exch' = [exch EXCEPT ![id] = "closed"]
    /\ UNCHANGED <<trading_stopped, command_queue, file>>
    /\ UnchangedCtl
    /\ UnchangedSide

\* an open limit sell is canceled on the exchange
ExchangeCancel ==
    /\ BeforePass
    /\ \E id \in OrderIds : exch[id] = "open" /\ exch' = [exch EXCEPT ![id] = "canceled"]
    /\ UNCHANGED <<trading_stopped, command_queue, file>>
    /\ UnchangedCtl
    /\ UnchangedSide

\* faulty variant of Put: the command goes to the head of the queue
PutAtHead(n, command) ==
    /\ Len(command_queue) < n
    /\ command_queue' = <<command>> \o command_queue
    /\ UNCHANGED <<trading_stopped, file, exch>>
    /\ UnchangedCtl
    /\ UnchangedSide

\* command_queue.put(command) by a listener, fewer than n commands waiting
Put(n, command) ==
    /\ Len(command_queue) < n
    /\ command_queue' = Append(command_queue, command)
    /\ UNCHANGED <<trading_stopped, file, exch>>
    /\ UnchangedCtl
    /\ UnchangedSide

Enqueue(command) == Put(MaxCmds, command)

stop_trading == Enqueue("stop")

start_trading == Enqueue("start")

buy_order == Enqueue("buy")

\* /stats and /balance call load_state, which assigns the global trading_stopped
QueryLoad ==
    /\ trading_stopped' = LoadState(file, trading_stopped).trading_stopped
    /\ UNCHANGED <<command_queue, file, exch>>
    /\ UnchangedCtl
    /\ UnchangedSide

send_stats == QueryLoad

----------------------------------------------------------------------------
(* The controller specification *)

Init ==
    /\ pc = "startup"
    /\ active_orders = <<>>
    /\ executed_orders_count = 0
    /\ total_profit = 0
    /\ trading_stopped = FALSE
    /\ insufficient_funds_notified = FALSE
    /\ command_queue = <<>>
    /\ file = NoFile
    /\ exch = [id \in OrderIds |-> "none"]
    /\ lookup = NoLookup
    /\ counted = [id \in OrderIds |-> 0]
    /\ creator_role = "none"
    /\ halted = FALSE
    /\ notification_queue = <<>>
    /\ sender = [pc |-> "get", message |-> 0]
    /\ delivered = <<>>
    /\ produced = 0
    /\ mem = NoFile
    /\ loaded = NoFile
    /\ step = "idle"
    /\ writes = 0
    /\ alerts = 0
    /\ short = FALSE
    /\ last = NoCall

Next ==
    \/ Startup
    \/ CmdNone
    \/ CmdStopFlag
    \/ CmdStopDemote
    \/ CmdStartFlag
    \/ CmdStartCheck
    \/ CmdBuy
    \/ TickCheck
    \/ TickDrop
    \/ ExchangeFill
    \/ ExchangeCancel
    \/ stop_trading
    \/ start_trading
    \/ buy_order
    \/ send_stats

Spec == Init /\ [][Next]_vars

----------------------------------------------------------------------------
(* Claims checked under Spec *)

\* the loop of run_bot is at its top: start-up or a whole tick has ended
EndOfTick == pc = "cmd"

Cheapest(ao, i) == \A j \in 1..Len(ao) : ao[i].price <= ao[j].price

\* C1 (I1): at the end of every controller tick at most one order of
\* active_orders has order_type 'autobay'.
C1_AtMostOneAutobay ==
    EndOfTick => Cardinality(Autobays(active_orders)) <= 1

\* C2 (I2): at the end of every controller tick, if active_orders is non-empty
\* and trading is enabled, exactly one order is 'autobay' and it has the
\* lowest price of all active orders.
C2_OneCheapestAutobay ==
    EndOfTick /\ active_orders # <<>> /\ ~trading_stopped
        => /\ Cardinality(Autobays(active_orders)) = 1
           /\ \A i \in Autobays(active_orders) : Cheapest(active_orders, i)

\* C3 (I3): no order is added to executed_orders_count / total_profit twice,
\* and the counter is the number of orders counted.
C3_CountedOnce ==
    /\ \A id \in OrderIds : counted[id] <= 1
    /\ executed_orders_count = Cardinality({id \in OrderIds : counted[id] > 0})

\* C5: trading_stopped is changed by steps of the controller thread only; a
\* query handler (stats, balance) never changes it.
C5_OnlyControllerWritesFlag ==
    [][trading_stopped' # trading_stopped => pc' # pc]_vars

\* C6: from the processing of a stop command until a start command is
\* processed, trading_stopped is true and no active order is 'autobay'.
C6_StoppedHasNoAutobay ==
    halted => trading_stopped /\ Autobays(active_orders) = {}

\* C7: from the processing of a stop command until a start command is
\* processed, create_new_order is never called with role 'autobay'.
C7_NoAutobayCreatedWhileStopped ==
    halted => creator_role # "autobay"

\* C8: no failure of an exchange call ends the loop of run_bot.
C8_LoopNeverEnds ==
    pc # "crashed"

\* a step that runs check_orders
PassStep == pc \in {"startup", "starting", "check"} /\ pc' # pc

SameOrder(o, p) ==
    /\ o.id = p.id
    /\ o.amount = p.amount
    /\ o.price = p.price
    /\ o.buy_price = p.buy_price

\* C9: an order leaves active_orders only in a reconciliation pass whose
\* lookup for it returned closed or canceled; after a pass every order whose
\* lookup failed or returned another status is still in active_orders with
\* the same id, amount, price and buy_price.
C9_LeavesOnlyWhenClosed ==
    [][\A i \in 1..Len(active_orders) :
          LET o == active_orders[i] IN
          /\ o.id \notin Ids(active_orders')
                => /\ PassStep
                   /\ o.id \in DOMAIN lookup'
                   /\ lookup'[o.id] \in {"closed", "canceled"}
          /\ (PassStep /\ lookup'[o.id] \in {"fail", "open"})
                => \E j \in 1..Len(active_orders') : SameOrder(o, active_orders'[j])
      ]_vars

\* C9 witness: a pass has run in which one lookup failed and the order is
\* still listed, while another order, reported closed, has left the list.
C9_Witness ==
    /\ pc = "drop"
    /\ \E id \in DOMAIN lookup : lookup[id] = "fail" /\ id \in Ids(active_orders)
    /\ \E id \in DOMAIN lookup : lookup[id] = "closed" /\ id \notin Ids(active_orders)

\* C19: in a tick whose price-drop trigger fires (an 'autobay' exists, trading
\* is enabled, current_price <= buy_price * (1 - drop_percent)) with a
\* sufficient balance, the 'autobay' is demoted to 'bay' and a newly created
\* 'autobay' order is appended, so the book holds exactly one 'autobay' after
\* the tick; with an insufficient balance, or when the trigger does not fire,
\* no order is demoted or created.
C19_PriceDropReplaces ==
    [][(pc = "drop" /\ pc' = "cmd")
          => IF creator_role' = "autobay"
             THEN LET a == FirstAutobay(active_orders) IN
                  /\ Len(active_orders') = Len(active_orders) + 1
                  /\ active_orders'[a].order_type = "bay"
                  /\ IsAutobay(active_orders'[Len(active_orders')])
                  /\ Cardinality(Autobays(active_orders')) = 1
             ELSE active_orders' = active_orders
      ]_vars

\* ascending by price; list.sort(key=price) is stable, so orders of equal
\* price keep the order in which they were inserted
IsSorted(ao) == \A i \in 1..(Len(ao) - 1) : ao[i].price <= ao[i + 1].price

\* C22: active_orders is sorted ascending by price at the end of every tick,
\* ticks in which a buy command or a price-drop replacement appended an order
\* included, and in every snapshot written to the state file.
C22_SortedAfterEveryMutation ==
    /\ EndOfTick => IsSorted(active_orders)
    /\ file.kind = "json" => IsSorted(file.active_orders)

----------------------------------------------------------------------------
(* The operator's side: commands, the termination signal and the state file
   found at start-up, on an account that cannot fund an order *)

MaxQueued == 3      \* commands waiting in command_queue in this specification

Commands == {"stop", "start", "buy"}

\* the process starts on an account whose balance is below order_size; the
\* state file is absent or cannot be parsed
InitOperator ==
    /\ pc = "startup"
    /\ active_orders = <<>>
    /\ executed_orders_count = 0
    /\ total_profit = 0
    /\ trading_stopped = FALSE
    /\ insufficient_funds_notified = FALSE
    /\ command_queue = <<>>
    /\ file \in {NoFile, BadFile}
    /\ exch = [id \in OrderIds |-> "canceled"]
    /\ lookup = NoLookup
    /\ counted = [id \in OrderIds |-> 0]
    /\ creator_role = "none"
    /\ halted = FALSE
    /\ notification_queue = <<>>
    /\ sender = [pc |-> "get", message |-> 0]
    /\ delivered = <<>>
    /\ produced = 0
    /\ mem = NoFile
    /\ loaded = NoFile
    /\ step = "idle"
    /\ writes = 0
    /\ alerts = 0
    /\ short = FALSE
    /\ last = NoCall

\* a message handler of the polling thread puts its command
Listener ==
    /\ pc # "exited"
    /\ \E command \in Commands : Put(MaxQueued, command)

\* /stats or /balance while the process runs
Query ==
    /\ pc # "exited"
    /\ QueryLoad

\* lines 535-540: SIGINT / SIGTERM reach the main thread, handle_exit logs and
\* calls sys.exit(0); the daemon thread run_bot ends wherever it is
handle_exit ==
    /\ pc # "exited"
    /\ pc' = "exited"
    /\ UNCHANGED <<active_orders, executed_orders_count, total_profit, trading_stopped,
                   insufficient_funds_notified, command_queue, file, exch, lookup,
                   counted, creator_role, halted>>
    /\ UnchangedSide

NextOperator ==
    \/ Startup
    \/ CmdNone
    \/ CmdStopFlag
    \/ CmdStopDemote
    \/ CmdStartFlag
    \/ CmdStartCheck
    \/ CmdBuy
    \/ TickCheck
    \/ TickDrop
    \/ Listener
    \/ Query
    \/ handle_exit

SpecOperator == InitOperator /\ [][NextOperator]_vars

\* no orders, zero counters
IsZeroed(b) ==
    /\ b.active_orders = <<>>
    /\ b.executed_orders_count = 0
    /\ b.total_profit = 0

\* C11 (I4): an empty in-memory state that results from a failed or malformed
\* read of the state file never replaces the file's content: while the file
\* is the one that could not be read, no save writes a snapshot with no
\* orders, zero executed count and zero profit over it.
C11_EmptyNeverReplacesUnreadFile ==
    [][file.kind = "malformed" /\ file' # file => ~IsZeroed(file')]_vars

\* the position of run_bot after it has taken `command` from the queue
AfterCommand(command) ==
    CASE command = "stop" -> {"stopping"}
      [] command = "start" -> {"starting"}
      [] command = "buy" -> {"check", "crashed"}

\* C14: commands are consumed in the order the listeners enqueued them, at
\* most one per tick; a tick with an empty queue does not block and goes on
\* to the reconciliation; a command enqueued during a tick is taken no
\* earlier than at the top of the next tick.
C14_CommandsInOrder ==
    [][/\ command_queue' # command_queue
            => \/ \E command \in Commands : command_queue' = Append(command_queue, command)
               \/ /\ pc = "cmd"
                  /\ command_queue # <<>>
                  /\ command_queue' = Tail(command_queue)
                  /\ pc' \in AfterCommand(Head(command_queue))
       /\ (pc = "cmd" /\ command_queue = <<>>)
            => /\ ENABLED CmdNone
               /\ pc' \in {"cmd", "check", "exited"}
       /\ (pc' = "cmd" /\ pc # "cmd") => pc \in {"startup", "drop"}
       /\ (pc' = "drop" /\ pc # "drop") => pc = "check"
      ]_vars

\* C14 witness: stop has been taken from the queue while two later commands
\* wait in the order they were put
C14_Witness ==
    /\ pc = "stopping"
    /\ command_queue = <<"start", "buy">>

\* C15: on SIGINT / SIGTERM the controller stops only at the end of a tick
\* (or before its first one), and the file is then what a final save_state of
\* the in-memory OrderBook leaves.
C15_ExitsAtEndOfTickSaved ==
    [][pc' = "exited"
          => /\ pc \in {"startup", "cmd", "crashed"}
             /\ file' = SaveState(file, active_orders, executed_orders_count,
                                  total_profit, trading_stopped)
      ]_vars

----------------------------------------------------------------------------
(* Notification dispatcher: save_notification / send_notifications *)

UnchangedBot == UNCHANGED <<pc, active_orders, executed_orders_count, total_profit,
                            trading_stopped, insufficient_funds_notified, command_queue,
                            file, exch, lookup, counted, creator_role, halted,
                            mem, loaded, step, writes, alerts, short, last>>

\* notification_queue.put(message); messages are numbered in the order they are put
save_notification ==
    /\ produced < MaxMsgs
    /\ produced' = produced + 1
    /\ notification_queue' = Append(notification_queue, produced + 1)
    /\ UNCHANGED <<sender, delivered>>
    /\ UnchangedBot

\* line 177: message = notification_queue.get(timeout=5) returns a message
SenderGet ==
    /\ sender.pc = "get"
    /\ notification_queue # <<>>
    /\ sender' = [pc |-> "send", message |-> Head(notification_queue)]
    /\ notification_queue' = Tail(notification_queue)
    /\ UNCHANGED <<delivered, produced>>
    /\ UnchangedBot

\* lines 178-180: bot.send_message succeeds
SendOk ==
    /\ sender.pc = "send"
    /\ delivered' = Append(delivered, sender.message)
    /\ sender' = [sender EXCEPT !.pc = "get"]
    /\ UNCHANGED <<notification_queue, produced>>
    /\ UnchangedBot

\* lines 183-185: bot.send_message raises; the error is logged, time.sleep(5) starts
SendFail ==
    /\ sender.pc = "send"
    /\ sender' = [sender EXCEPT !.pc = "sleep"]
    /\ UNCHANGED <<notification_queue, delivered, produced>>
    /\ UnchangedBot

\* the pause is over: the loop goes back to notification_queue.get
SenderWake ==
    /\ sender.pc = "sleep"
    /\ sender' = [sender EXCEPT !.pc = "get"]
    /\ UNCHANGED <<notification_queue, delivered, produced>>
    /\ UnchangedBot

NextNotify ==
    \/ save_notification
    \/ SenderGet
    \/ SendOk
    \/ SendFail
    \/ SenderWake

SpecNotify == Init /\ [][NextNotify]_vars

\* the message the sender is about to send, or to send again
InHand(m) == sender.pc \in {"send", "sleep"} /\ sender.message = m

\* C4: no message is dropped: every message ever enqueued is waiting in the
\* queue, held by the sender for its (next) send attempt, or delivered.
C4_NoMessageDropped ==
    \A m \in 1..produced :
        \/ m \in Range(notification_queue)
        \/ InHand(m)
        \/ m \in Range(delivered)

----------------------------------------------------------------------------
(* Persistence round trip: save_state followed by load_state *)

MaxSaved == 2       \* orders (and executed orders) in a saved OrderBook

SavedOrders ==
    {Order(id, BuyAmount(MinPrice), SellPrice(MinPrice), MinPrice, t) :
        id \in 1..MaxSaved, t \in {"bay", "autobay"}}

\* order lists without a repeated id
SavedLists ==
    UNION {{s \in [1..n -> SavedOrders] : \A i, j \in 1..n : i # j => s[i].id # s[j].id} :
           n \in 0..MaxSaved}

\* the OrderBooks handed to save_state; every executed order brought the same profit
SavedBooks ==
    {JsonState(ao, cnt, cnt * Profit(CHOOSE o \in SavedOrders : TRUE), ts) :
        ao \in SavedLists, cnt \in 0..MaxSaved, ts \in BOOLEAN}

PriorFiles == {NoFile, BadFile} \cup SavedBooks

InitPersist ==
    /\ pc = "startup"
    /\ active_orders = <<>>
    /\ executed_orders_count = 0
    /\ total_profit = 0
    /\ insufficient_funds_notified = FALSE
    /\ command_queue = <<>>
    /\ exch = [id \in OrderIds |-> "none"]
    /\ lookup = NoLookup
    /\ counted = [id \in OrderIds |-> 0]
    /\ creator_role = "none"
    /\ halted = FALSE
    /\ notification_queue = <<>>
    /\ sender = [pc |-> "get", message |-> 0]
    /\ delivered = <<>>
    /\ produced = 0
    /\ mem \in SavedBooks
    /\ trading_stopped = mem.trading_stopped
    /\ file \in PriorFiles
    /\ loaded = NoFile
    /\ step = "save"
    /\ writes = 0
    /\ alerts = 0
    /\ short = FALSE
    /\ last = NoCall

UnchangedForPersist ==
    UNCHANGED <<pc, active_orders, executed_orders_count, total_profit,
                insufficient_funds_notified, command_queue, exch, lookup, counted,
                creator_role, halted, notification_queue, sender, delivered, produced, mem,
                alerts, short, last>>

\* save_state(mem): the write of lines 139-141 succeeds, or nothing is written
PersistSave ==
    /\ step = "save"
    /\ file' = SaveState(file, mem.active_orders, mem.executed_orders_count,
                         mem.total_profit, trading_stopped)
    /\ step' = "load"
    /\ writes' = IF SaveWrites(file, mem.active_orders, mem.executed_orders_count,
                               mem.total_profit, trading_stopped)
                 THEN writes + 1 ELSE writes
    /\ UNCHANGED <<trading_stopped, loaded>>
    /\ UnchangedForPersist

\* save_state(mem): open() or json.dump raises (lines 143-144); the file is
\* left as it was or cut short
PersistSaveFails ==
    /\ step = "save"
    /\ SaveWrites(file, mem.active_orders, mem.executed_orders_count,
                  mem.total_profit, trading_stopped)
    /\ file' \in {file, BadFile}
    /\ step' = "load_unsaved"
    /\ writes' = IF file' # file THEN writes + 1 ELSE writes
    /\ UNCHANGED <<trading_stopped, loaded>>
    /\ UnchangedForPersist

\* the process ends and a new one starts: the module sets trading_stopped = False (line 45)
ProcessRestart ==
    /\ step \in {"load", "load_unsaved"}
    /\ trading_stopped
    /\ trading_stopped' = FALSE
    /\ UNCHANGED <<file, loaded, step, writes>>
    /\ UnchangedForPersist

\* load_state(): the triple it returns and the global it sets
PersistLoad ==
    /\ step \in {"load", "load_unsaved"}
    /\ LET l == LoadState(file, trading_stopped) IN
       /\ loaded' = JsonState(l.active_orders, l.executed_orders_count,
                              l.total_profit, l.trading_stopped)
       /\ trading_stopped' = l.trading_stopped
    /\ step' = IF step = "load" THEN "done" ELSE "done_unsaved"
    /\ UNCHANGED <<file, writes>>
    /\ UnchangedForPersist

\* save_state(mem) called again right after the first call returned: the same
\* OrderBook, the same trading_stopped, nothing in between
PersistSaveAgain ==
    /\ step \in {"load", "load_unsaved"}
    /\ trading_stopped = mem.trading_stopped
    /\ file' = SaveState(file, mem.active_orders, mem.executed_orders_count,
                         mem.total_profit, trading_stopped)
    /\ writes' = IF SaveWrites(file, mem.active_orders, mem.executed_orders_count,
                               mem.total_profit, trading_stopped)
                 THEN writes + 1 ELSE writes
    /\ step' = IF step = "load" THEN "saved_twice" ELSE "saved_late"
    /\ UNCHANGED <<trading_stopped, loaded>>
    /\ UnchangedForPersist

NextPersist ==
    \/ PersistSave
    \/ PersistSaveFails
    \/ ProcessRestart
    \/ PersistLoad
    \/ PersistSaveAgain

SpecPersist == InitPersist /\ [][NextPersist]_vars

IsEmptyBook(b) ==
    /\ b.active_orders = <<>>
    /\ b.executed_orders_count = 0
    /\ b.total_profit = 0
    /\ ~b.trading_stopped

----------------------------------------------------------------------------
(* One reconciliation pass: check_orders applied to every book *)

BookOrders ==
    {Order(id, BuyAmount(p), SellPrice(p), p, t) :
        id \in OrderIds, p \in Prices, t \in {"bay", "autobay"}}

\* the lists active_orders can be: up to MaxOrders orders, no id twice, in any order
Books ==
    UNION {{s \in [1..n -> BookOrders] : \A i, j \in 1..n : i # j => s[i].id # s[j].id} :
           n \in 0..MaxOrders}

\* run_bot is about to call check_orders: any book, every listed order open,
\* filled or canceled on the exchange, trading enabled or stopped
InitPass ==
    /\ pc = "check"
    /\ active_orders \in Books
    /\ executed_orders_count = 0
    /\ total_profit = 0
    /\ trading_stopped \in BOOLEAN
    /\ insufficient_funds_notified = FALSE
    /\ command_queue = <<>>
    /\ file = NoFile
    /\ exch \in [OrderIds -> {"none", "open", "closed", "canceled"}]
    /\ \A id \in OrderIds : exch[id] = "none" <=> id \notin Ids(active_orders)
    /\ lookup = NoLookup
    /\ counted = [id \in OrderIds |-> 0]
    /\ creator_role = "none"
    /\ halted = FALSE
    /\ notification_queue = <<>>
    /\ sender = [pc |-> "get", message |-> 0]
    /\ delivered = <<>>
    /\ produced = 0
    /\ mem = NoFile
    /\ loaded = NoFile
    /\ step = "idle"
    /\ writes = 0
    /\ alerts = 0
    /\ short = FALSE
    /\ last = NoCall

\* check_orders(..., initial_check) as run_bot calls it (lines 406, 430, 443),
\* then the save_state of run_bot that follows (lines 409, 433, 447)
PassOnce(initial_check) ==
    /\ pc = "check"
    /\ \E failed \in SUBSET Ids(active_orders) :
        LET res == Lookups(active_orders, exch, failed) IN
        \E sc \in PassScenarios(active_orders, trading_stopped, initial_check, res) :
            LET r == check_orders(active_orders, executed_orders_count, total_profit,
                                  insufficient_funds_notified, file, exch,
                                  trading_stopped, initial_check, res, sc)
                final == IF initial_check THEN r.active_orders
                         ELSE SortByPrice(r.active_orders)
            IN  /\ active_orders' = final
                /\ executed_orders_count' = r.executed_orders_count
                /\ total_profit' = r.total_profit
                /\ insufficient_funds_notified' = r.ifn
                /\ exch' = r.exch
                /\ file' = SaveState(r.file, final, r.executed_orders_count,
                                     r.total_profit, trading_stopped)
                /\ lookup' = res
                /\ counted' = Counted(active_orders, res)
                /\ creator_role' = IF r.created THEN "autobay" ELSE "none"
                /\ last' = [op |-> "check_orders",
                            initial_check |-> initial_check,
                            before |-> active_orders,
                            still_open |-> Keep(active_orders, res, {"fail", "open"}),
                            rotated |-> r.rotated,
                            notes |-> r.notes,
                            events |-> r.events \o <<"save_state">>]
    /\ pc' = "drop"
    /\ UNCHANGED <<trading_stopped, command_queue, halted, notification_queue, sender,
                   delivered, produced, mem, loaded, step, writes, alerts, short>>

InitialCheck == PassOnce(TRUE)

TickPass == PassOnce(FALSE)

NextPass ==
    \/ InitialCheck
    \/ TickPass

SpecPass == InitPass /\ [][NextPass]_vars

PassWas(initial_check) == last.op = "check_orders" /\ last.initial_check = initial_check

\* the notifications check_orders enqueues for the pass itself and per order
Reports == {"check_start", "filled", "canceled"}

\* C16: an initial check that leaves zero open orders invokes the Order
\* Creator exactly once with role 'autobay' when trading is enabled; when
\* trading is stopped it creates no order, leaves the book empty and enqueues
\* a notification besides the reports of the pass (that no replenishment
\* occurred).
C16_InitialCheckOnEmptyBook ==
    (PassWas(TRUE) /\ last.still_open = <<>>)
        => IF ~trading_stopped
           THEN Cardinality({i \in 1..Len(last.events) :
                                last.events[i] = "create_autobay"}) = 1
           ELSE /\ \A i \in 1..Len(last.events) : last.events[i] # "create_autobay"
                /\ active_orders = <<>>
                /\ \E i \in 1..Len(last.notes) : last.notes[i] \notin Reports

CheapestOf(s, i, among) == \A j \in among : s[i].price <= s[j].price

\* the index in list s of the order with this id
IndexOf(s, id) == CHOOSE i \in 1..Len(s) : s[i].id = id

\* C17: after the rotation of a pass with trading enabled, a non-empty
\* still-open set (orders found open and orders whose lookup failed) has
\* exactly one 'autobay'; when none carried the role the cheapest order is
\* the one promoted, when several carried it the cheapest of them keeps it.
C17_RotationLeavesOneAutobay ==
    (last.op = "check_orders" /\ ~trading_stopped /\ last.still_open # <<>>)
        => LET carried == {last.still_open[i].id : i \in Autobays(last.still_open)}
               rot == last.rotated
           IN  /\ Cardinality(Autobays(rot)) = 1
               /\ \A i \in Autobays(rot) :
                    /\ carried = {} => CheapestOf(rot, i, 1..Len(rot))
                    /\ Cardinality(carried) > 1
                         => /\ rot[i].id \in carried
                            /\ CheapestOf(rot, i, {IndexOf(rot, id) : id \in carried})

\* the pass saw an 'autobay' order filled or canceled
AutobayGone ==
    \E i \in 1..Len(last.before) :
        /\ IsAutobay(last.before[i])
        /\ lookup[last.before[i].id] \in {"closed", "canceled"}

\* C18: a non-initial pass with trading enabled that sees an 'autobay' order
\* filled or canceled calls save_state, sleeps, calls create_new_order with
\* 'autobay' exactly once and save_state is called again, in that order; any
\* other pass neither sleeps nor creates an order after its save_state.
C18_ReplenishmentOnClosure ==
    last.op = "check_orders"
        => IF ~last.initial_check /\ ~trading_stopped /\ AutobayGone
           THEN /\ SubSeq(last.events, 1, 4)
                      = <<"save_state", "sleep", "create_autobay", "save_state">>
                /\ Cardinality({i \in 1..Len(last.events) :
                                   last.events[i] = "create_autobay"}) = 1
           ELSE last.events \in {<<"save_state">>, <<"save_state", "save_state">>,
                                 <<"create_autobay", "save_state">>}

\* C18 witness: a tick's pass saw the 'autobay' order filled or canceled,
\* replenished and left the new 'autobay' order in the book
C18_Witness ==
    /\ PassWas(FALSE)
    /\ AutobayGone
    /\ last.events = <<"save_state", "sleep", "create_autobay", "save_state", "save_state">>
    /\ Len(active_orders) = Len(last.still_open) + 1

----------------------------------------------------------------------------
(* The insufficient-funds flag: every step of run_bot that reads or writes
   insufficient_funds_notified, with trading enabled *)

MaxAlerts == 3      \* cap on the count of insufficient-funds messages

\* the messages that report insufficient funds (lines 201, 230, 258, 465)
InsufficientNotes == {"insufficient_funds", "insufficient_buy", "insufficient_sell"}

CountAlerts(ns) == Cardinality({i \in 1..Len(ns) : ns[i] \in InsufficientNotes})

Last(s) == s[Len(s)]

\* the call met insufficient funds: the balance is below order_size, or the
\* exchange raised InsufficientFunds for the buy or for the sell
Insufficient(sc) ==
    \/ sc.bal < order_size
    \/ Last(sc.buy) = "insufficient"
    \/ Last(sc.buy) = "ok" /\ Last(sc.sell) = "insufficient"

InitFunds ==
    /\ pc = "check"
    /\ active_orders = <<>>
    /\ executed_orders_count = 0
    /\ total_profit = 0
    /\ trading_stopped = FALSE
    /\ insufficient_funds_notified = FALSE
    /\ command_queue = <<>>
    /\ file = NoFile
    /\ exch = [id \in OrderIds |-> "none"]
    /\ lookup = NoLookup
    /\ counted = [id \in OrderIds |-> 0]
    /\ creator_role = "none"
    /\ halted = FALSE
    /\ notification_queue = <<>>
    /\ sender = [pc |-> "get", message |-> 0]
    /\ delivered = <<>>
    /\ produced = 0
    /\ mem = NoFile
    /\ loaded = NoFile
    /\ step = "idle"
    /\ writes = 0
    /\ alerts = 0
    /\ short = FALSE
    /\ last = NoCall

UnchangedForFunds ==
    UNCHANGED <<pc, trading_stopped, command_queue, lookup, counted, creator_role, halted,
                notification_queue, sender, delivered, produced, mem, loaded, step,
                writes, last>>

\* what a check_orders call that returned r does to the book, the flag and the count
Checked(sc, r, final) ==
    /\ r.executed_orders_count <= MaxCount
    /\ alerts + CountAlerts(r.notes) <= MaxAlerts
    /\ insufficient_funds_notified' = r.ifn
    /\ IF r.created /\ ~r.fallback
       THEN /\ alerts' = IF Insufficient(sc) THEN alerts + CountAlerts(r.notes) ELSE 0
            /\ short' = Insufficient(sc)
       ELSE UNCHANGED <<alerts, short>>
    /\ active_orders' = final
    /\ executed_orders_count' = r.executed_orders_count
    /\ total_profit' = r.total_profit
    /\ exch' = r.exch
    /\ file' = SaveState(r.file, final, r.executed_orders_count, r.total_profit, FALSE)

\* what a create_new_order call that returned r does to the flag and the count
Attempted(sc, r) ==
    /\ alerts + CountAlerts(r.notes) <= MaxAlerts
    /\ insufficient_funds_notified' = r.ifn
    /\ alerts' = IF Insufficient(sc) THEN alerts + CountAlerts(r.notes) ELSE 0
    /\ short' = Insufficient(sc)

\* lines 434-438: the buy command
FundsBuy ==
    /\ \E sc \in Scenarios(exch, BuyDepth) :
        LET r == create_new_order(active_orders, insufficient_funds_notified, exch, "bay", sc)
        IN  /\ ~r.raised
            /\ Attempted(sc, r)
            /\ active_orders' = r.active_orders
            /\ exch' = r.exch
            /\ file' = SaveState(file, r.active_orders, executed_orders_count,
                                 total_profit, trading_stopped)
    /\ UNCHANGED <<executed_orders_count, total_profit>>
    /\ UnchangedForFunds

\* lines 426-433: the start command clears the flag and runs the initial
\* check, which creates an order when the book is empty
FundsStart ==
    /\ LET res == Lookups(active_orders, exch, {}) IN
       \E sc \in PassScenarios(active_orders, FALSE, TRUE, res) :
          LET r == check_orders(active_orders, executed_orders_count, total_profit, FALSE,
                                file, exch, FALSE, TRUE, res, sc)
          IN  Checked(sc, r, r.active_orders)
    /\ UnchangedForFunds

\* lines 443-447: the tick's reconciliation pass, which creates an order when
\* the 'autobay' order was filled or canceled
FundsCheck ==
    /\ LET res == Lookups(active_orders, exch, {}) IN
       \E sc \in PassScenarios(active_orders, FALSE, FALSE, res) :
          LET r == check_orders(active_orders, executed_orders_count, total_profit,
                                insufficient_funds_notified, file, exch, FALSE, FALSE, res, sc)
          IN  Checked(sc, r, SortByPrice(r.active_orders))
    /\ UnchangedForFunds

\* lines 449-466: the price-drop trigger fires
FundsDrop ==
    /\ LET a == FirstAutobay(active_orders) IN
       /\ a # 0
       /\ \E current_price \in Prices : DropFires(current_price, active_orders[a].buy_price)
       /\ \E available_balance \in Balances :
            IF available_balance >= order_size
            THEN \E sc \in Scenarios(exch, BuyDepth) :
                    LET demoted == SetType(active_orders, a, "bay")
                        r == create_new_order(demoted, insufficient_funds_notified,
                                              exch, "autobay", sc)
                    IN  /\ ~r.raised
                        /\ Attempted(sc, r)
                        /\ active_orders' = r.active_orders
                        /\ exch' = r.exch
                        /\ file' = SaveState(file, r.active_orders, executed_orders_count,
                                             total_profit, trading_stopped)
            ELSE /\ alerts + 1 <= MaxAlerts
                 /\ insufficient_funds_notified' = TRUE
                 /\ alerts' = IF insufficient_funds_notified THEN alerts ELSE alerts + 1
                 /\ short' = TRUE
                 /\ UNCHANGED <<active_orders, exch, file>>
    /\ UNCHANGED <<executed_orders_count, total_profit>>
    /\ UnchangedForFunds

NextFunds ==
    \/ FundsBuy
    \/ FundsStart
    \/ FundsCheck
    \/ FundsDrop
    \/ ExchangeFill
    \/ ExchangeCancel

SpecFunds == InitFunds /\ [][NextFunds]_vars

\* C13: the insufficient-funds notification is edge-triggered: while order
\* creations keep meeting insufficient funds it has been enqueued exactly
\* once since funds last sufficed; neither a start command nor a balance that
\* passes the size check and is rejected by the exchange enqueues it again.
C13_AlertedOncePerEpisode ==
    /\ alerts <= 1
    /\ short => alerts = 1

----------------------------------------------------------------------------
(* One Order Creator call: create_new_order applied to every book *)

\* a caller is about to call create_new_order: any book of open orders, the
\* flag set or not
InitCreate ==
    /\ pc = "cmd"
    /\ active_orders \in Books
    /\ executed_orders_count = 0
    /\ total_profit = 0
    /\ trading_stopped = FALSE
    /\ insufficient_funds_notified \in BOOLEAN
    /\ command_queue = <<>>
    /\ file = NoFile
    /\ exch = [id \in OrderIds |-> IF id \in Ids(active_orders) THEN "open" ELSE "none"]
    /\ lookup = NoLookup
    /\ counted = [id \in OrderIds |-> 0]
    /\ creator_role = "none"
    /\ halted = FALSE
    /\ notification_queue = <<>>
    /\ sender = [pc |-> "get", message |-> 0]
    /\ delivered = <<>>
    /\ produced = 0
    /\ mem = NoFile
    /\ loaded = NoFile
    /\ step = "idle"
    /\ writes = 0
    /\ alerts = 0
    /\ short = FALSE
    /\ last = NoCall

\* create_new_order(symbol, active_orders, executed_orders_count, total_profit, role),
\* the buy and sell loops followed through all their attempts
CreateOnce(role) ==
    /\ pc = "cmd"
    /\ \E sc \in Scenarios(exch, attempts) :
        LET r == create_new_order(active_orders, insufficient_funds_notified, exch, role, sc)
        IN  /\ active_orders' = r.active_orders
            /\ insufficient_funds_notified' = r.ifn
            /\ exch' = r.exch
            /\ last' = [op |-> "create_new_order", role |-> role, sc |-> sc,
                        before |-> active_orders, raised |-> r.raised,
                        notes |-> r.notes, buys |-> r.buys, sells |-> r.sells]
    /\ creator_role' = role
    /\ pc' = "created"
    /\ UNCHANGED <<executed_orders_count, total_profit, trading_stopped, command_queue,
                   file, lookup, counted, halted, notification_queue, sender, delivered,
                   produced, mem, loaded, step, writes, alerts, short>>

CreateBay == CreateOnce("bay")

CreateAutobay == CreateOnce("autobay")

NextCreate ==
    \/ CreateBay
    \/ CreateAutobay

SpecCreate == InitCreate /\ [][NextCreate]_vars

\* the exchange accepted the market buy and reported its fill price
BuySucceeded(sc) ==
    /\ sc.load = "ok" /\ sc.ticker = "ok" /\ sc.balance = "ok"
    /\ sc.bal >= order_size
    /\ Last(sc.buy) = "ok"

\* the exchange accepted the limit sell paired with the buy
SellSucceeded(sc) == BuySucceeded(sc) /\ Last(sc.sell) = "ok"

\* C20: create_new_order appends exactly one order, of the role asked for, if
\* and only if the market buy and the limit sell both succeeded; when the
\* balance is insufficient or the buy fails no sell is submitted and the book
\* and the counters are unchanged; when the buy succeeds and the sell fails the
\* book is unchanged and an error notification is enqueued.
C20_CreatorEffectOnBook ==
    last.op = "create_new_order"
        => /\ SellSucceeded(last.sc) <=> Len(active_orders) = Len(last.before) + 1
           /\ SellSucceeded(last.sc)
                => /\ SubSeq(active_orders, 1, Len(last.before)) = last.before
                   /\ active_orders[Len(active_orders)].order_type = last.role
           /\ ~SellSucceeded(last.sc) => active_orders = last.before
           /\ ~BuySucceeded(last.sc)
                => /\ last.sells = 0
                   /\ executed_orders_count = 0 /\ total_profit = 0
           /\ (BuySucceeded(last.sc) /\ ~SellSucceeded(last.sc))
                => \E i \in 1..Len(last.notes) : last.notes[i] = "sell_failed"

\* C20 witness: an 'autobay' order was appended to a non-empty book after the
\* sell loop had to try twice
C20_Witness ==
    /\ last.op = "create_new_order"
    /\ last.role = "autobay"
    /\ last.before # <<>>
    /\ Len(last.sc.sell) = 2
    /\ Len(active_orders) = Len(last.before) + 1

\* the notifications that report a failed creation (lines 209, 213, 238, 242, 287)
ErrorNotes == {"order_not_found", "buy_error", "sell_error", "sell_failed"}

\* create_new_order got as far as the buy loop
BuyTried(sc) ==
    /\ sc.load = "ok" /\ sc.ticker = "ok" /\ sc.balance = "ok"
    /\ sc.bal >= order_size

\* C21: a NetworkError raised by create_market_buy_order or
\* create_limit_sell_order is never the final outcome of the Order Creator:
\* when the last attempt of a submission raised it, the creation still ends
\* with its order and no error notification is enqueued.
C21_NetworkErrorNeverFinal ==
    (/\ last.op = "create_new_order"
     /\ \/ BuyTried(last.sc) /\ Last(last.sc.buy) = "network"
        \/ BuySucceeded(last.sc) /\ Last(last.sc.sell) = "network")
        => /\ Len(active_orders) = Len(last.before) + 1
           /\ \A i \in 1..Len(last.notes) : last.notes[i] \notin ErrorNotes

\* C23: one invocation of create_new_order executes at most one market buy,
\* whatever fails inside the 3-attempt loop of create_buy_order (a
\* RateLimitExceeded raised by fetch_order after an accepted buy included), and
\* an executed market buy is followed by the submission of its limit sell or
\* reported by an error notification.
C23_AtMostOneBuyEachAccounted ==
    last.op = "create_new_order"
        => /\ last.buys <= 1
           /\ last.buys >= 1
                => \/ last.sells >= 1
                   \/ \E i \in 1..Len(last.notes) : last.notes[i] \in ErrorNotes

====
